---- MODULE Spec2Model ----
(***************************************************************************)
(* Airtable MCP server: the tool dispatcher (src/index.ts) run over the    *)
(* stdio transport, and the HTTP/SSE wrapper (src/server.ts).              *)
(*                                                                         *)
(* Optional JavaScript values are modelled as sequences of length 0 or 1:  *)
(* <<>> is `undefined`, <<v>> is the value v.                              *)
(***************************************************************************)
EXTENDS Integers, Sequences, FiniteSets, TLC

\* ------------------------------------------------------------------ bounds
MaxSort == 2          \* longest `sort` list an invocation carries
MaxClients == 2       \* streaming connections accepted in one run
MaxPings == 2         \* heartbeat events written to one connection

\* -------------------------------------------------------- JavaScript values
Absent == <<>>
Opt(S) == {Absent} \cup {<<s>> : s \in S}

\* Template-literal / String() conversion of an optional string value.
Str(v) == IF v = Absent THEN "undefined" ELSE v[1]

DigitChar(d) ==
  CASE d = 0 -> "0" [] d = 1 -> "1" [] d = 2 -> "2" [] d = 3 -> "3" [] d = 4 -> "4"
    [] d = 5 -> "5" [] d = 6 -> "6" [] d = 7 -> "7" [] d = 8 -> "8" [] d = 9 -> "9"

\* Number.prototype.toString() of a non-negative integer.
RECURSIVE NumToStr(_)
NumToStr(n) == IF n < 10 THEN DigitChar(n) ELSE NumToStr(n \div 10) \o DigitChar(n % 10)

\* Template-literal conversion of an optional number (error.statusCode).
OptNumToStr(v) == IF v = Absent THEN "undefined" ELSE NumToStr(v[1])

\* JavaScript truthiness of an optional string / an optional number.
TruthyStr(v) == v # Absent /\ v[1] # ""
TruthyNum(v) == v # Absent /\ v[1] # 0

\* ------------------------------------------------------------ tool catalog
TOOLS ==
  << "list_bases", "list_tables", "create_table", "create_field", "list_records",
     "create_record", "update_record", "delete_record", "search_records", "get_record" >>

Catalog == {TOOLS[i] : i \in 1..Len(TOOLS)}

\* Names a caller may send: the catalog and one name outside it.
ToolNames == Catalog \cup {"nonexistent_tool"}

\* The `required` list of each tool's inputSchema.
Required(name) ==
  CASE name = "list_bases"     -> {}
    [] name = "list_tables"    -> {"baseId"}
    [] name = "create_table"   -> {"baseId", "name", "fields"}
    [] name = "create_field"   -> {"baseId", "tableId", "name", "type"}
    [] name = "list_records"   -> {"baseId", "tableId"}
    [] name = "create_record"  -> {"baseId", "tableId", "fields"}
    [] name = "update_record"  -> {"baseId", "tableId", "recordId", "fields"}
    [] name = "delete_record"  -> {"baseId", "tableId", "recordId"}
    [] name = "search_records" -> {"baseId", "tableId", "filterByFormula"}
    [] name = "get_record"     -> {"baseId", "tableId", "recordId"}
    [] OTHER                   -> {}

\* The properties each tool's inputSchema declares (and its branch reads).
Properties(name) ==
  CASE name = "list_bases"     -> {}
    [] name = "list_tables"    -> {"baseId"}
    [] name = "create_table"   -> {"baseId", "name", "description", "fields"}
    [] name = "create_field"   -> {"baseId", "tableId", "name", "type", "options"}
    [] name = "list_records"   -> {"baseId", "tableId", "maxRecords", "view",
                                   "filterByFormula", "sort"}
    [] name = "create_record"  -> {"baseId", "tableId", "fields"}
    [] name = "update_record"  -> {"baseId", "tableId", "recordId", "fields"}
    [] name = "delete_record"  -> {"baseId", "tableId", "recordId"}
    [] name = "search_records" -> {"baseId", "tableId", "filterByFormula", "maxRecords"}
    [] name = "get_record"     -> {"baseId", "tableId", "recordId"}
    [] OTHER                   -> {"baseId"}

\* ---------------------------------------------------------------- arguments
SortTerms == [field : {"Name", "Age"}, direction : {"asc", "desc"}]

RECURSIVE SeqsUpTo(_, _)
SeqsUpTo(S, n) ==
  IF n = 0 THEN {<<>>}
  ELSE LET shorter == SeqsUpTo(S, n - 1)
       IN  shorter \cup {Append(q, s) : q \in {r \in shorter : Len(r) = n - 1}, s \in S}

PropValues(p) ==
  CASE p = "baseId"          -> Opt({"appA"})
    [] p = "tableId"         -> Opt({"tblT"})
    [] p = "recordId"        -> Opt({"recR"})
    [] p = "name"            -> Opt({"Tasks"})
    [] p = "description"     -> Opt({"a table"})
    [] p = "type"            -> Opt({"singleLineText"})
    [] p = "options"         -> Opt({"{options}"})
    [] p = "fields"          -> Opt({"{fields}"})
    [] p = "maxRecords"      -> Opt({0, 5})
    [] p = "view"            -> Opt({"Grid"})
    [] p = "filterByFormula" -> Opt({"", "{Status}='Done'"})
    [] p = "sort"            -> Opt(SeqsUpTo(SortTerms, MaxSort))

\* The values a caller gives property p of tool `name`: only the properties the
\* tool's schema declares are sent (the branches read no others).
PV(name, p) == IF p \in Properties(name) THEN PropValues(p) ELSE {Absent}

\* request.params.arguments left out altogether.
NoArgs ==
  [given |-> FALSE, baseId |-> Absent, tableId |-> Absent, recordId |-> Absent,
   name |-> Absent, description |-> Absent, type |-> Absent, options |-> Absent,
   fields |-> Absent, maxRecords |-> Absent, view |-> Absent,
   filterByFormula |-> Absent, sort |-> Absent]

\* The argument objects a caller sends to tool `name`: any choice of the
\* properties its schema declares (required ones may be missing), or none.
ArgsFor(name) ==
  {NoArgs} \cup
  [given : {TRUE}, baseId : PV(name, "baseId"), tableId : PV(name, "tableId"),
   recordId : PV(name, "recordId"), name : PV(name, "name"),
   description : PV(name, "description"), type : PV(name, "type"),
   options : PV(name, "options"), fields : PV(name, "fields"),
   maxRecords : PV(name, "maxRecords"), view : PV(name, "view"),
   filterByFormula : PV(name, "filterByFormula"), sort : PV(name, "sort")]

\* Arguments that carry every property the tool's schema requires.
ValidArgs(name, a) == a.given /\ \A p \in Required(name) : a[p] # Absent

\* --------------------------------------------------------- outbound requests
NoBody == <<>>

\* The characters of a string of the model, in chunks: each character that the
\* query serializer escapes is a chunk of its own. (The strings the model uses
\* are the argument values above, the parameter names and the sort keys.)
Chunks(str) ==
  IF \E i \in 0..MaxSort : str = "sort[" \o NumToStr(i) \o "][field]"
    THEN LET i == CHOOSE i \in 0..MaxSort : str = "sort[" \o NumToStr(i) \o "][field]"
         IN  <<"sort", "[", NumToStr(i), "]", "[", "field", "]">>
  ELSE IF \E i \in 0..MaxSort : str = "sort[" \o NumToStr(i) \o "][direction]"
    THEN LET i == CHOOSE i \in 0..MaxSort : str = "sort[" \o NumToStr(i) \o "][direction]"
         IN  <<"sort", "[", NumToStr(i), "]", "[", "direction", "]">>
  ELSE IF str = "{Status}='Done'" THEN <<"{", "Status", "}", "=", "'", "Done", "'">>
  ELSE IF str = "" THEN <<>>
  ELSE <<str>>

\* URLSearchParams serialization of one chunk (application/x-www-form-urlencoded
\* percent-encoding): letters, digits and *-._ stay, the rest is escaped.
EncodeChunk(ch) ==
  CASE ch = "[" -> "%5B" [] ch = "]" -> "%5D" [] ch = "{" -> "%7B" [] ch = "}" -> "%7D"
    [] ch = "=" -> "%3D" [] ch = "'" -> "%27" [] ch = " " -> "+"
    [] OTHER -> ch

RECURSIVE EncodeChunks(_)
EncodeChunks(chunks) ==
  IF chunks = <<>> THEN ""
  ELSE EncodeChunk(Head(chunks)) \o EncodeChunks(Tail(chunks))

FormEncode(str) == EncodeChunks(Chunks(str))

\* URLSearchParams.prototype.toString(): name=value pairs joined by "&".
RECURSIVE Serialize(_)
Serialize(params) ==
  IF params = <<>> THEN ""
  ELSE FormEncode(params[1][1]) \o "=" \o FormEncode(params[1][2])
       \o (IF Len(params) > 1 THEN "&" ELSE "") \o Serialize(Tail(params))

\* The request handed to axios; `query` is the text after "?" in the url.
HttpRequest(method, segs, hasQuery, params, data) ==
  [method |-> method, path |-> segs, hasQuery |-> hasQuery, params |-> params,
   query |-> IF hasQuery THEN Serialize(params) ELSE "", data |-> data]

\* SortParams with the direction appended before the field.
RECURSIVE SortParamsSwapped(_, _)
SortParamsSwapped(sort, index) ==
  IF index >= Len(sort) THEN <<>>
  ELSE << <<"sort[" \o NumToStr(index) \o "][direction]", sort[index + 1].direction>>,
          <<"sort[" \o NumToStr(index) \o "][field]", sort[index + 1].field>> >>
       \o SortParamsSwapped(sort, index + 1)

\* args.sort.forEach(...): two params.append per term, keyed by its index.
RECURSIVE SortParams(_, _)
SortParams(sort, index) ==
  IF index >= Len(sort) THEN <<>>
  ELSE << <<"sort[" \o NumToStr(index) \o "][field]", sort[index + 1].field>>,
          <<"sort[" \o NumToStr(index) \o "][direction]", sort[index + 1].direction>> >>
       \o SortParams(sort, index + 1)

\* The URLSearchParams the list_records branch builds.
ListParams(a) ==
  (IF TruthyNum(a.maxRecords) THEN << <<"maxRecords", NumToStr(a.maxRecords[1])>> >> ELSE <<>>)
  \o (IF TruthyStr(a.view) THEN << <<"view", a.view[1]>> >> ELSE <<>>)
  \o (IF TruthyStr(a.filterByFormula)
        THEN << <<"filterByFormula", a.filterByFormula[1]>> >> ELSE <<>>)
  \o (IF a.sort # Absent THEN SortParams(a.sort[1], 0) ELSE <<>>)

\* The URLSearchParams the search_records branch builds: filterByFormula is
\* appended unconditionally (an absent value is converted to "undefined").
SearchParams(a) ==
  << <<"filterByFormula", Str(a.filterByFormula)>> >>
  \o (IF TruthyNum(a.maxRecords) THEN << <<"maxRecords", NumToStr(a.maxRecords[1])>> >> ELSE <<>>)

\* The arguments (endpoint, method, data) each branch passes to makeAirtableRequest.
BuildRequest(name, a) ==
  CASE name = "list_tables" ->
         HttpRequest("GET", <<"meta", "bases", Str(a.baseId), "tables">>, FALSE, <<>>, NoBody)
    [] name = "create_table" ->
         HttpRequest("POST", <<"meta", "bases", Str(a.baseId), "tables">>, FALSE, <<>>,
                     << <<"name", a.name>>, <<"description", a.description>>,
                        <<"fields", a.fields>> >>)
    [] name = "create_field" ->
         HttpRequest("POST",
                     <<"meta", "bases", Str(a.baseId), "tables", Str(a.tableId), "fields">>,
                     FALSE, <<>>,
                     << <<"name", a.name>>, <<"type", a.type>>, <<"options", a.options>> >>)
    [] name = "list_records" ->
         HttpRequest("GET", <<Str(a.baseId), Str(a.tableId)>>, TRUE, ListParams(a), NoBody)
    [] name = "create_record" ->
         HttpRequest("POST", <<Str(a.baseId), Str(a.tableId)>>, FALSE, <<>>,
                     << <<"fields", a.fields>> >>)
    [] name = "update_record" ->
         HttpRequest("PATCH", <<Str(a.baseId), Str(a.tableId), Str(a.recordId)>>, FALSE,
                     <<>>, << <<"fields", a.fields>> >>)
    [] name = "delete_record" ->
         HttpRequest("DELETE", <<Str(a.baseId), Str(a.tableId), Str(a.recordId)>>, FALSE,
                     <<>>, NoBody)
    [] name = "search_records" ->
         HttpRequest("GET", <<Str(a.baseId), Str(a.tableId)>>, TRUE, SearchParams(a), NoBody)
    [] name = "get_record" ->
         HttpRequest("GET", <<Str(a.baseId), Str(a.tableId), Str(a.recordId)>>, FALSE,
                     <<>>, NoBody)

\* ------------------------------------------------------------ remote answers
\* What the axios call of makeAirtableRequest can end with:
\*   ok      a 2xx response
\*   http    a non-2xx response (an AxiosError with error.response), whose payload
\*           may or may not carry error.message
\*   network an AxiosError without a response
\*   other   a thrown value that is not an AxiosError
HttpStatuses == {404, 500}

Responses ==
  {[kind |-> "ok", status |-> <<200>>, remoteMsg |-> Absent, message |-> ""]}
  \cup {[kind |-> "http", status |-> <<s>>, remoteMsg |-> m,
         message |-> "Request failed with status code " \o NumToStr(s)] :
          s \in HttpStatuses, m \in Opt({"", "Could not find what you are looking for"})}
  \cup {[kind |-> "network", status |-> Absent, remoteMsg |-> Absent,
         message |-> "connect ECONNREFUSED"]}
  \cup {[kind |-> "other", status |-> Absent, remoteMsg |-> Absent,
         message |-> "unexpected failure"]}

NoResponse == [kind |-> "none", status |-> Absent, remoteMsg |-> Absent, message |-> ""]

\* ------------------------------------------------------------------- errors
\* A thrown error: api says whether it is an AirtableAPIError.
Thrown(api, message, statusCode) ==
  [api |-> api, message |-> message, statusCode |-> statusCode]

\* makeAirtableRequest, the credential check.
CredentialError ==
  Thrown(TRUE, "AIRTABLE_API_KEY environment variable is required", Absent)

\* RequestError with the status code left out of the AirtableAPIError.
RequestErrorNoStatus(r) ==
  IF r.kind \in {"http", "network"}
    THEN Thrown(TRUE, IF TruthyStr(r.remoteMsg) THEN r.remoteMsg[1] ELSE r.message, Absent)
    ELSE Thrown(FALSE, r.message, Absent)

\* makeAirtableRequest, the catch block around the axios call.
RequestError(r) ==
  IF r.kind \in {"http", "network"}
    THEN Thrown(TRUE, IF TruthyStr(r.remoteMsg) THEN r.remoteMsg[1] ELSE r.message, r.status)
    ELSE Thrown(FALSE, r.message, Absent)

\* The first property each branch reads from `args`: reading it from an
\* undefined `args` is the TypeError the branch throws.
FirstRead(name) ==
  CASE name = "list_records"   -> "maxRecords"
    [] name = "search_records" -> "filterByFormula"
    [] OTHER                   -> "baseId"

ArgsTypeError(name) ==
  Thrown(FALSE,
         "Cannot read properties of undefined (reading '" \o FirstRead(name) \o "')",
         Absent)

UnknownToolError(name) == Thrown(FALSE, "Unknown tool: " \o name, Absent)

\* The handler's catch block: the message text, as its parts in order.
ErrorMessage(e) ==
  IF e.api
    THEN <<"Airtable API Error (", OptNumToStr(e.statusCode), "): ", e.message>>
    ELSE <<"Error: ", e.message>>

ErrorResult(e) == [isError |-> TRUE, content |-> <<ErrorMessage(e)>>]

\* ------------------------------------------------------------------ results
ListBasesText ==
  <<"Airtable API does not provide an endpoint to list bases. You need to specify the base ID directly.">>

\* The text of each branch's success result; "<json>" stands for the
\* pretty-printed remote payload.
SuccessText(name, a) ==
  CASE name = "create_table"  -> <<"Table '", Str(a.name), "' created successfully:\n", "<json>">>
    [] name = "create_field"  -> <<"Field '", Str(a.name), "' created successfully:\n", "<json>">>
    [] name = "create_record" -> <<"Record created successfully:\n", "<json>">>
    [] name = "update_record" -> <<"Record updated successfully:\n", "<json>">>
    [] name = "delete_record" -> <<"Record ", Str(a.recordId), " deleted successfully">>
    [] OTHER                  -> <<"<json>">>

SuccessResult(text) == [isError |-> FALSE, content |-> <<text>>]

NoResult == [isError |-> FALSE, content |-> <<>>]

\* -------------------------------------------------------------------- state
VARIABLES
  apiKey,      \* whether process.env.AIRTABLE_API_KEY is set (and non-empty)
  pcMain,      \* the stdio process: "start", "running" (connected) or "exited"
  call,        \* the call-tool invocation at hand: its pc, name and arguments
  outbound,    \* the HTTP requests issued on behalf of that invocation, in order
  response,    \* what the remote API answered to it
  result,      \* the ToolResult the handler returned
  \* the HTTP/SSE process (src/server.ts)
  connPc,      \* per connection, the /sse handler: "none", "pending" (awaiting
               \* mcpServer.connect), "live" (timer and listeners set) or "ended"
  events,      \* per connection, the events the handler writes to res, in order
  keepAlive,   \* per connection, whether its setInterval timer is active
  listeners,   \* per connection, whether req.on('close') / req.on('error') are set
  resDestroyed,\* per connection, res.destroyed: the socket is gone
  transportClosed, \* per connection, whether transport.close() has been called
  closeCause,  \* per connection, why the socket went: "none", "client" or "write"
  closeSeen,   \* per connection, whether req has emitted 'close' for it
  bound,       \* the transport the one mcpServer is connected to (0: none)
  listening,   \* whether httpServer accepts connections
  closing,     \* whether httpServer.close() has been called
  exited,      \* whether process.exit() has run
  beat,        \* flips at every heartbeat written (events keeps the first MaxPings)
  rest         \* the REST facade request at hand: its pc, route, target, the
               \* outcome of mcpServer.handleRequest and the HTTP reply

dispatchVars == <<pcMain, call, outbound, response, result>>
streamVars ==
  <<connPc, events, keepAlive, listeners, resDestroyed, transportClosed, closeCause,
    closeSeen, bound, listening, closing, exited, beat>>
vars == <<apiKey, dispatchVars, streamVars, rest>>

\* What `await mcpServer.handleRequest(...)` can end with: an envelope that
\* carries a result, an envelope that carries an error, a thrown exception, or
\* no envelope at all; "badbody" and "none" mark that it was never called.
NoOutcome == [kind |-> "none", toolResult |-> NoResult]

NoRest ==
  [pc |-> "idle", route |-> "", target |-> "", outcome |-> NoOutcome, status |-> 0,
   body |-> ""]

Clients == 1..MaxClients

Init ==
  /\ apiKey \in BOOLEAN
  /\ pcMain = "start"
  /\ call = [pc |-> "idle", name |-> "", args |-> NoArgs]
  /\ outbound = <<>>
  /\ response = NoResponse
  /\ result = NoResult
  /\ connPc = [c \in Clients |-> "none"]
  /\ events = [c \in Clients |-> <<>>]
  /\ keepAlive = [c \in Clients |-> FALSE]
  /\ listeners = [c \in Clients |-> FALSE]
  /\ resDestroyed = [c \in Clients |-> FALSE]
  /\ transportClosed = [c \in Clients |-> FALSE]
  /\ closeCause = [c \in Clients |-> "none"]
  /\ closeSeen = [c \in Clients |-> FALSE]
  /\ bound = 0
  /\ listening = TRUE
  /\ closing = FALSE
  /\ exited = FALSE
  /\ beat = FALSE
  /\ rest = NoRest

\* main(): the server is created and connected to the stdio transport.
MainConnected ==
  /\ pcMain = "start"
  /\ pcMain' = "running"
  /\ UNCHANGED <<apiKey, rest, call, outbound, response, result, streamVars>>

\* main().catch: server.connect rejected, the process exits with status 1.
MainFailed ==
  /\ pcMain = "start"
  /\ pcMain' = "exited"
  /\ UNCHANGED <<apiKey, rest, call, outbound, response, result, streamVars>>

\* What the handler does with (name, args) up to its first suspension point:
\* either it has returned (done, with a result and no request issued) or it has
\* issued one request through makeAirtableRequest and awaits the answer.
Returned(res) == [pc |-> "done", requests |-> <<>>, result |-> res]

\* Awaiting with the request sent a second time.
AwaitingRetry(req) == [pc |-> "awaiting", requests |-> <<req, req>>, result |-> NoResult]

Awaiting(req) == [pc |-> "awaiting", requests |-> <<req>>, result |-> NoResult]

\* A default branch that forwards the unknown name to the remote API.
DefaultBranchForwarded(name) == Awaiting(HttpRequest("GET", <<name>>, FALSE, <<>>, NoBody))

\* The switch's default branch.
DefaultBranch(name) == Returned(ErrorResult(UnknownToolError(name)))

Dispatch(name, a, key) ==
  IF name = "list_bases" THEN Returned(SuccessResult(ListBasesText))
  ELSE IF name \notin Catalog THEN DefaultBranch(name)
  ELSE IF ~a.given THEN Returned(ErrorResult(ArgsTypeError(name)))
  ELSE IF ~key THEN Returned(ErrorResult(CredentialError))
  ELSE Awaiting(BuildRequest(name, a))

\* The CallToolRequestSchema handler is entered with (name, args).
CallTool(name, a) ==
  /\ pcMain = "running"
  /\ call.pc = "idle"
  /\ LET d == Dispatch(name, a, apiKey)
     IN  /\ call' = [pc |-> d.pc, name |-> name, args |-> a]
         /\ outbound' = d.requests
         /\ result' = d.result
  /\ response' = NoResponse
  /\ UNCHANGED <<apiKey, rest, pcMain, streamVars>>

\* The result the handler returns once the awaited request has ended with r.
Complete(name, a, r) ==
  IF r.kind = "ok" THEN SuccessResult(SuccessText(name, a))
  ELSE ErrorResult(RequestError(r))

\* The awaited axios call ends with r and the handler returns.
Respond(r) ==
  /\ call.pc = "awaiting"
  /\ call' = [call EXCEPT !.pc = "done"]
  /\ response' = r
  /\ result' = Complete(call.name, call.args, r)
  /\ UNCHANGED <<apiKey, rest, pcMain, outbound, streamVars>>

\* The returned ToolResult is handed back to the caller; the invocation is over
\* and nothing of it is kept.
Deliver ==
  /\ call.pc = "done"
  /\ call' = [pc |-> "idle", name |-> "", args |-> NoArgs]
  /\ outbound' = <<>>
  /\ response' = NoResponse
  /\ result' = NoResult
  /\ UNCHANGED <<apiKey, rest, pcMain, streamVars>>

Next ==
  \/ MainConnected
  \/ MainFailed
  \/ \E name \in ToolNames : \E a \in ArgsFor(name) : CallTool(name, a)
  \/ \E r \in Responses : Respond(r)
  \/ Deliver

Spec == Init /\ [][Next]_vars

\* ------------------------------------------------- the HTTP/SSE process
\* Number of heartbeat events written to connection c so far.
Pings(c) == Cardinality({i \in DOMAIN events[c] : events[c][i] = "ping"})

\* A connection that keeps httpServer.close() from completing: its response is
\* still open and its socket is still there.
Open(c) == connPc[c] \in {"pending", "live"} /\ ~resDestroyed[c]

\* Accept with the connection-acknowledgement write left out.
AcceptWithoutAck(c) ==
  /\ ~exited /\ listening
  /\ connPc[c] = "none"
  /\ connPc' = [connPc EXCEPT ![c] = "pending"]
  /\ events' = events
  /\ UNCHANGED <<apiKey, rest, dispatchVars, keepAlive, listeners, resDestroyed,
                 transportClosed, closeCause, closeSeen, bound, listening, closing,
                 exited, beat>>

\* GET /sse, up to the await: the headers and the connection-acknowledgement
\* event are written, the transport is created and mcpServer.connect is called.
Accept(c) ==
  /\ ~exited /\ listening
  /\ connPc[c] = "none"
  /\ connPc' = [connPc EXCEPT ![c] = "pending"]
  /\ events' = [events EXCEPT ![c] = <<"connection">>]
  /\ UNCHANGED <<apiKey, rest, dispatchVars, keepAlive, listeners, resDestroyed,
                 transportClosed, closeCause, closeSeen, bound, listening, closing,
                 exited, beat>>

\* mcpServer.connect(transport) resolves: the one mcpServer is now connected to
\* this transport, the heartbeat timer is started and the req listeners are set.
HandoffOk(c) ==
  /\ ~exited
  /\ connPc[c] = "pending"
  /\ connPc' = [connPc EXCEPT ![c] = "live"]
  /\ bound' = c
  /\ keepAlive' = [keepAlive EXCEPT ![c] = TRUE]
  /\ listeners' = [listeners EXCEPT ![c] = TRUE]
  /\ UNCHANGED <<apiKey, rest, dispatchVars, events, resDestroyed, transportClosed,
                 closeCause, closeSeen, listening, closing, exited, beat>>

\* mcpServer.connect(transport) rejects: the catch block writes an error event
\* and ends the response. Whether the mcpServer was already switched to this
\* transport before the rejection is left open.
HandoffFail(c) ==
  /\ ~exited
  /\ connPc[c] = "pending"
  /\ connPc' = [connPc EXCEPT ![c] = "ended"]
  /\ events' = [events EXCEPT ![c] = Append(@, "error")]
  /\ \E b \in {bound, c} : bound' = b
  /\ UNCHANGED <<apiKey, rest, dispatchVars, keepAlive, listeners, resDestroyed,
                 transportClosed, closeCause, closeSeen, listening, closing, exited, beat>>

\* The setInterval callback on a connection whose socket is there: the ping is
\* written.
HeartbeatOk(c) ==
  /\ ~exited
  /\ keepAlive[c] /\ ~resDestroyed[c]
  /\ events' = [events EXCEPT ![c] = IF Pings(c) < MaxPings THEN Append(@, "ping") ELSE @]
  /\ beat' = ~beat
  /\ UNCHANGED <<apiKey, rest, dispatchVars, connPc, keepAlive, listeners, resDestroyed,
                 transportClosed, closeCause, closeSeen, bound, listening, closing,
                 exited>>

\* The setInterval callback writes and the write fails: the callback looks at
\* no outcome of res.write; the socket error destroys the socket.
HeartbeatWriteFails(c) ==
  /\ ~exited
  /\ keepAlive[c] /\ ~resDestroyed[c]
  /\ resDestroyed' = [resDestroyed EXCEPT ![c] = TRUE]
  /\ closeCause' = [closeCause EXCEPT ![c] = "write"]
  /\ UNCHANGED <<apiKey, rest, dispatchVars, connPc, events, keepAlive, listeners,
                 transportClosed, closeSeen, bound, listening, closing, exited, beat>>

\* The client goes away: its socket is closed.
ClientDisconnect(c) ==
  /\ ~exited
  /\ Open(c)
  /\ resDestroyed' = [resDestroyed EXCEPT ![c] = TRUE]
  /\ closeCause' = [closeCause EXCEPT ![c] = "client"]
  /\ UNCHANGED <<apiKey, rest, dispatchVars, connPc, events, keepAlive, listeners,
                 transportClosed, closeSeen, bound, listening, closing, exited, beat>>

\* What closing transport c leaves the mcpServer connected to: closing the
\* transport it is connected to disconnects it; whether closing an earlier
\* transport (whose onclose still points at the mcpServer) does is left open.
AfterClose(c) == IF bound = c THEN {0} ELSE {bound, 0}

\* req emits 'close' (or 'error') for a socket that is gone. The listeners, if
\* they are set by now, clear the timer and close the transport; an event
\* emitted before they are set is lost.
ReqClose(c) ==
  /\ ~exited
  /\ closeCause[c] # "none" /\ ~closeSeen[c]
  /\ closeSeen' = [closeSeen EXCEPT ![c] = TRUE]
  /\ IF listeners[c]
       THEN /\ keepAlive' = [keepAlive EXCEPT ![c] = FALSE]
            /\ transportClosed' = [transportClosed EXCEPT ![c] = TRUE]
            /\ \E b \in AfterClose(c) : bound' = b
       ELSE UNCHANGED <<keepAlive, transportClosed, bound>>
  /\ UNCHANGED <<apiKey, rest, dispatchVars, connPc, events, listeners, resDestroyed,
                 closeCause, listening, closing, exited, beat>>

\* SIGINT / SIGTERM: httpServer.close(callback) stops the listener; the callback
\* is the only place that exits.
Signal ==
  /\ ~exited /\ ~closing
  /\ closing' = TRUE
  /\ listening' = FALSE
  /\ UNCHANGED <<apiKey, rest, dispatchVars, connPc, events, keepAlive, listeners,
                 resDestroyed, transportClosed, closeCause, closeSeen, bound, exited, beat>>

\* The close callback: it runs once no connection is open, and exits.
ServerClosed ==
  /\ ~exited /\ closing
  /\ \A c \in Clients : ~Open(c)
  /\ exited' = TRUE
  /\ UNCHANGED <<apiKey, rest, dispatchVars, connPc, events, keepAlive, listeners,
                 resDestroyed, transportClosed, closeCause, closeSeen, bound,
                 listening, closing, beat>>

StreamNext ==
  \/ \E c \in Clients : Accept(c)
  \/ \E c \in Clients : HandoffOk(c)
  \/ \E c \in Clients : HandoffFail(c)
  \/ \E c \in Clients : HeartbeatOk(c)
  \/ \E c \in Clients : HeartbeatWriteFails(c)
  \/ \E c \in Clients : ClientDisconnect(c)
  \/ \E c \in Clients : ReqClose(c)
  \/ Signal
  \/ ServerClosed

StreamSpec == Init /\ [][StreamNext]_vars

\* The event loop runs what is ready: a settled connect, an emitted event, the
\* timers, the close callback. Clients are under no obligation to leave.
StreamFairSpec ==
  /\ StreamSpec
  /\ \A c \in Clients : WF_vars(HandoffOk(c) \/ HandoffFail(c))
  /\ \A c \in Clients : WF_vars(ReqClose(c))
  /\ \A c \in Clients : WF_vars(HeartbeatOk(c))
  /\ WF_vars(ServerClosed)

\* ------------------------------------------------------ the REST facade
\* POST /api/tools/:toolName ("tools", target: the tool name) and POST /api/mcp
\* ("mcp", target: the protocol method of the body).
RestTargets(route) ==
  IF route = "tools" THEN ToolNames ELSE {"tools/list", "tools/call", "no/such/method"}

\* The outcomes of mcpServer.handleRequest for a request about `target`.
Outcomes(target) ==
  {[kind |-> "result", toolResult |-> r] :
     r \in {SuccessResult(ListBasesText), ErrorResult(UnknownToolError(target)),
            ErrorResult(CredentialError)}}
  \cup {[kind |-> k, toolResult |-> NoResult] : k \in {"error", "throw", "undefined"}}

\* RestReply with an isError ToolResult answered like an error envelope.
RestReplyToolErrorAs400(route, out) ==
  IF out.kind \in {"throw", "undefined"}
    THEN [status |-> 500,
          body |-> IF route = "tools" THEN "Tool execution failed (message)"
                   ELSE "jsonrpc error -32603"]
  ELSE IF out.kind = "error" \/ out.toolResult.isError
    THEN [status |-> 400,
          body |-> IF route = "tools" THEN "Tool execution failed (details)"
                   ELSE "envelope"]
  ELSE [status |-> 200, body |-> IF route = "tools" THEN "result" ELSE "envelope"]

\* The try/catch of both routes: reading `.error` of an envelope that is not
\* there throws like handleRequest itself and lands in the catch (500); an
\* envelope with an error is answered with 400; anything else with res.json
\* (200).
RestReply(route, out) ==
  IF out.kind \in {"throw", "undefined"}
    THEN [status |-> 500,
          body |-> IF route = "tools" THEN "Tool execution failed (message)"
                   ELSE "jsonrpc error -32603"]
  ELSE IF out.kind = "error"
    THEN [status |-> 400,
          body |-> IF route = "tools" THEN "Tool execution failed (details)"
                   ELSE "envelope"]
  ELSE [status |-> 200, body |-> IF route = "tools" THEN "result" ELSE "envelope"]

\* A POST arrives. express.json either parses the body, and the route handler
\* runs up to its await, or fails, and the global error handler answers 500.
RestRequest(route, target, parsed) ==
  /\ listening
  /\ rest.pc = "idle"
  /\ rest' = IF parsed
               THEN [NoRest EXCEPT !.pc = "awaiting", !.route = route, !.target = target]
               ELSE [NoRest EXCEPT !.pc = "done", !.route = route, !.target = target,
                                   !.outcome = [NoOutcome EXCEPT !.kind = "badbody"],
                                   !.status = 500, !.body = "Internal Server Error"]
  /\ UNCHANGED <<apiKey, dispatchVars, streamVars>>

\* handleRequest settles and the handler answers.
RestSettle(out) ==
  /\ rest.pc = "awaiting"
  /\ LET reply == RestReply(rest.route, out)
     IN  rest' = [rest EXCEPT !.pc = "done", !.outcome = out, !.status = reply.status,
                              !.body = reply.body]
  /\ UNCHANGED <<apiKey, dispatchVars, streamVars>>

\* The reply is sent; nothing of the request is kept.
RestSent ==
  /\ rest.pc = "done"
  /\ rest' = NoRest
  /\ UNCHANGED <<apiKey, dispatchVars, streamVars>>

RestNext ==
  \/ \E route \in {"tools", "mcp"} : \E target \in RestTargets(route) :
       \E parsed \in BOOLEAN : RestRequest(route, target, parsed)
  \/ \E out \in Outcomes(rest.target) : RestSettle(out)
  \/ RestSent

RestSpec == Init /\ [][RestNext]_vars

\* ------------------------------------------------------------------ claims
\* A text block holds `part` as one of its parts.
Contains(text, part) == \E i \in DOMAIN text : text[i] = part

\* The method and path the dispatch table gives for a tool (list_bases has no
\* remote call).
TableMethod(name) ==
  CASE name \in {"list_tables", "list_records", "search_records", "get_record"} -> "GET"
    [] name \in {"create_table", "create_field", "create_record"} -> "POST"
    [] name = "update_record" -> "PATCH"
    [] name = "delete_record" -> "DELETE"
    [] OTHER -> "none"

TablePath(name, a) ==
  CASE name \in {"list_tables", "create_table"} -> <<"meta", "bases", a.baseId[1], "tables">>
    [] name = "create_field" ->
         <<"meta", "bases", a.baseId[1], "tables", a.tableId[1], "fields">>
    [] name \in {"list_records", "create_record", "search_records"} ->
         <<a.baseId[1], a.tableId[1]>>
    [] name \in {"update_record", "delete_record", "get_record"} ->
         <<a.baseId[1], a.tableId[1], a.recordId[1]>>
    [] OTHER -> <<>>

\* The invocation at hand has returned, was for a catalog tool and carried
\* every required argument.
ValidCallDone ==
  call.pc = "done" /\ call.name \in Catalog /\ ValidArgs(call.name, call.args)

OneCallPerTable ==
  /\ Len(outbound) = 1
  /\ outbound[1].method = TableMethod(call.name)
  /\ outbound[1].path = TablePath(call.name, call.args)

\* C1 as stated: every catalog tool, list_bases included, called with valid
\* arguments (in a process that has its credential) issues exactly one outbound
\* call, with the table's method and path.
C1_EveryToolOneCall == (ValidCallDone /\ apiKey) => OneCallPerTable

\* C1 amended: every catalog tool other than list_bases, called with valid
\* arguments while the credential is set, issues exactly one outbound call with
\* the table's method and path; list_bases, and any call made without the
\* credential, issues none; no invocation ever issues two calls.
C1_RemoteToolsOneCall ==
  /\ Len(outbound) <= 1
  /\ ValidCallDone =>
       IF call.name = "list_bases" \/ ~apiKey THEN outbound = <<>> ELSE OneCallPerTable

C1_Witness ==
  /\ ValidCallDone /\ call.name = "update_record" /\ apiKey
  /\ Len(outbound) = 1 /\ outbound[1].method = "PATCH"
  /\ outbound[1].path = <<"appA", "tblT", "recR">>

\* C2: an invocation whose name is not in the catalog returns isError = true
\* and issues no outbound call, whatever the arguments and the credential.
C2_UnknownToolLocalError ==
  (call.pc # "idle" /\ call.name \notin Catalog) =>
    (call.pc = "done" /\ result.isError /\ outbound = <<>>)

C2_Witness ==
  /\ call.pc = "done" /\ call.name = "nonexistent_tool" /\ call.args.given /\ apiKey
  /\ result.isError

\* C3: when the remote API answers with a non-2xx status s, the invocation
\* returns a ToolResult with isError = true whose single text block holds s and
\* the remote-reported message, or the transport-level message when the remote
\* reports none.
C3_RemoteErrorReported ==
  (call.pc = "done" /\ response.kind = "http") =>
    /\ result.isError
    /\ Len(result.content) = 1
    /\ Contains(result.content[1], NumToStr(response.status[1]))
    /\ Contains(result.content[1],
                IF TruthyStr(response.remoteMsg) THEN response.remoteMsg[1]
                ELSE response.message)

C3_Witness ==
  /\ call.pc = "done" /\ call.name = "get_record" /\ response.kind = "http"
  /\ response.status = <<404>> /\ result.isError
  /\ Contains(result.content[1], "404")

\* The text of an error result opens with the remote-failure prefix.
HasStatusPrefix(res) ==
  Len(res.content) = 1 /\ res.content[1][1] = "Airtable API Error ("

\* C4: an error ToolResult carries the status-coded remote-failure prefix
\* exactly when the remote API rejected the request with a non-2xx response;
\* every failure without a remote response has the message-only form.
C4_PrefixIffRemoteRejection ==
  (call.pc = "done" /\ result.isError) =>
    (HasStatusPrefix(result) <=> response.kind = "http")

\* C5: search_records invoked without filterByFormula fails before any
\* outbound call: it returns an error and the remote API is never contacted.
C5_SearchNeedsFormula ==
  (call.pc # "idle" /\ call.name = "search_records"
     /\ call.args.filterByFormula = Absent) =>
    (call.pc = "done" /\ result.isError /\ outbound = <<>>)

\* C6: with the credential absent, the stdio process fails at startup and never
\* reaches the state in which it accepts tool invocations.
C6_NoCredentialNoService == ~apiKey => pcMain # "running"

\* A streaming client that is connected: its handoff succeeded and its socket
\* and transport are still there.
Connected(c) == connPc[c] = "live" /\ ~resDestroyed[c] /\ ~transportClosed[c]

\* C7: at every moment each connected streaming client has its own Session and
\* its own heartbeat timer: the mcpServer is connected to its transport and its
\* timer runs, whatever other clients have done since.
C7_OwnSessionAndTimer ==
  \A c \in Clients : Connected(c) => (bound = c /\ keepAlive[c])

\* C8: once a client's disconnect has been signalled on its req, at whatever
\* point after acceptance (also while the handoff is pending), its heartbeat
\* timer is cancelled, so that no later heartbeat is written, and its transport
\* is closed.
C8_DisconnectTearsDown ==
  \A c \in Clients :
    (closeCause[c] = "client" /\ closeSeen[c]) => (~keepAlive[c] /\ transportClosed[c])

\* C9: a failed heartbeat write is handled as a disconnect of that connection
\* alone: when its close is delivered the connection's timer is cancelled and
\* its transport closed, and no other connection's timer, transport or Session
\* changes.
C9_WriteFailureTearsDownOne ==
  [][\A c \in Clients :
       (closeCause[c] = "write" /\ ~closeSeen[c] /\ closeSeen'[c]) =>
         /\ ~keepAlive'[c] /\ transportClosed'[c]
         /\ \A d \in Clients \ {c} :
              /\ keepAlive'[d] = keepAlive[d]
              /\ transportClosed'[d] = transportClosed[d]
              /\ (bound = d => bound' = d)]_vars

\* C10: after a termination signal the process eventually exits, in every
\* execution, also when streaming clients are still connected.
C10_SignalLeadsToExit == closing ~> exited

\* A local exception escaped while the request was handled: handleRequest threw,
\* gave no envelope to read, or the body could not be parsed.
LocalException(out) == out.kind \in {"throw", "undefined", "badbody"}

\* C11: a REST facade request is answered 400 exactly when the envelope of the
\* dispatch path carries an error, 500 exactly when a local exception escaped,
\* and 200 otherwise, a result envelope holding an isError ToolResult included.
C11_RestStatus ==
  rest.pc = "done" =>
    /\ rest.status = 400 <=> rest.outcome.kind = "error"
    /\ rest.status = 500 <=> LocalException(rest.outcome)
    /\ rest.status = 200 <=> rest.outcome.kind = "result"
    /\ rest.status \in {200, 400, 500}

C11_Witness ==
  /\ rest.pc = "done" /\ rest.route = "tools" /\ rest.target = "nonexistent_tool"
  /\ rest.outcome.kind = "result" /\ rest.outcome.toolResult.isError
  /\ rest.status = 200

\* A list_records invocation that has issued its request.
ListCall == call.pc # "idle" /\ call.name = "list_records" /\ Len(outbound) = 1

\* The parameters of a request that are sort parameters: those that are none of
\* the three others list_records sends.
RECURSIVE SortPart(_)
SortPart(params) ==
  IF params = <<>> THEN <<>>
  ELSE IF params[1][1] \in {"maxRecords", "view", "filterByFormula"}
         THEN SortPart(Tail(params))
         ELSE <<params[1]>> \o SortPart(Tail(params))

\* The sort parameters the claim names for a sort list: for term i (from 0),
\* sort[i][field] then sort[i][direction].
ClaimedSortParams(sort) ==
  [k \in 1..(2 * Len(sort)) |->
     LET i == (k - 1) \div 2
     IN  IF k % 2 = 1
           THEN <<"sort[" \o NumToStr(i) \o "][field]", sort[i + 1].field>>
           ELSE <<"sort[" \o NumToStr(i) \o "][direction]", sort[i + 1].direction>>]

SortOf(a) == IF a.sort = Absent THEN <<>> ELSE a.sort[1]

\* The invocation sends nothing but a sort list.
OnlySort(a) ==
  ~TruthyNum(a.maxRecords) /\ ~TruthyStr(a.view) /\ ~TruthyStr(a.filterByFormula)

\* The query text the claim gives for a sort list, brackets written literally.
RECURSIVE LiteralQuery(_, _)
LiteralQuery(sort, i) ==
  IF i >= Len(sort) THEN ""
  ELSE "sort[" \o NumToStr(i) \o "][field]=" \o sort[i + 1].field
       \o "&sort[" \o NumToStr(i) \o "][direction]=" \o sort[i + 1].direction
       \o (IF i + 1 < Len(sort) THEN "&" ELSE "") \o LiteralQuery(sort, i + 1)

\* The same query text with the brackets percent-encoded.
RECURSIVE EncodedQuery(_, _)
EncodedQuery(sort, i) ==
  IF i >= Len(sort) THEN ""
  ELSE "sort%5B" \o NumToStr(i) \o "%5D%5Bfield%5D=" \o sort[i + 1].field
       \o "&sort%5B" \o NumToStr(i) \o "%5D%5Bdirection%5D=" \o sort[i + 1].direction
       \o (IF i + 1 < Len(sort) THEN "&" ELSE "") \o EncodedQuery(sort, i + 1)

\* The sort parameters appended for the call are exactly the claimed ones, in
\* list order.
SortParamsAsClaimed ==
  ListCall => SortPart(outbound[1].params) = ClaimedSortParams(SortOf(call.args))

\* C12 as stated: the query carries sort[i][field] and sort[i][direction] for
\* each term in list order and no other sort parameter, and the query text is
\* sort[0][field]=Name&sort[0][direction]=asc for sort = [{Name, asc}] (brackets
\* literal, likewise for longer lists).
C12_SortQueryLiteral ==
  /\ SortParamsAsClaimed
  /\ (ListCall /\ OnlySort(call.args)) =>
       outbound[1].query = LiteralQuery(SortOf(call.args), 0)

\* C12 amended: the parameters are as claimed, and the query text is their
\* form-urlencoded serialization, in which the brackets of the names are
\* percent-encoded: sort%5B0%5D%5Bfield%5D=Name&sort%5B0%5D%5Bdirection%5D=asc
\* for sort = [{Name, asc}].
C12_SortQueryEncoded ==
  /\ SortParamsAsClaimed
  /\ (ListCall /\ OnlySort(call.args)) =>
       outbound[1].query = EncodedQuery(SortOf(call.args), 0)

C12_Witness ==
  /\ ListCall /\ OnlySort(call.args)
  /\ call.args.sort = << << [field |-> "Name", direction |-> "asc"],
                            [field |-> "Age", direction |-> "desc"] >> >>
  /\ outbound[1].query =
       "sort%5B0%5D%5Bfield%5D=Name&sort%5B0%5D%5Bdirection%5D=asc&sort%5B1%5D%5Bfield%5D=Age&sort%5B1%5D%5Bdirection%5D=desc"

\* C13: on every accepted streaming connection the connection-acknowledgement
\* event is written first, before the handoff to the mcpServer and before any
\* heartbeat; a heartbeat timer runs (and heartbeats are written) only on a
\* connection whose handoff succeeded; a failed handoff writes an error event
\* after the acknowledgement, ends the connection and starts no timer.
C13_AckFirstTimerAfterHandoff ==
  \A c \in Clients :
    /\ connPc[c] # "none" =>
         /\ Len(events[c]) >= 1 /\ events[c][1] = "connection"
         /\ \A i \in 2..Len(events[c]) : events[c][i] # "connection"
    /\ bound = c => (connPc[c] # "none" /\ events[c][1] = "connection")
    /\ (keepAlive[c] \/ Pings(c) > 0) => connPc[c] = "live"
    /\ connPc[c] = "ended" => (events[c] = <<"connection", "error">> /\ ~keepAlive[c])

C13_Witness ==
  \E c, d \in Clients :
    /\ connPc[c] = "live" /\ keepAlive[c] /\ events[c] = <<"connection", "ping", "ping">>
    /\ connPc[d] = "ended" /\ events[d] = <<"connection", "error">>
====
